---- MODULE Spec2Model ----
\* Model of the AI Model Platform API (src/main.py, src/schemas.py): the request
\* handlers over the three collections they touch (generationjob, modelspec,
\* deployment), with each call to the document store as one atomic step.
\*
\* Strings that the code slices, parses or formats (identifiers, deployment
\* names, urls) are sequences of one-character strings. An ObjectId is the
\* number its 12 bytes encode; str() and ObjectId() convert between the two.
\* Optional values are sequences of length 0 (None) or 1 (the value).
EXTENDS Integers, Sequences, FiniteSets, TLC

\* db             the store connection: "None" or "connected", fixed at start-up
\* generationjob  the collections, each a sequence of records in stored order
\* modelspec
\* deployment
\* nextOid        the identifier the store assigns next
\* req            each worker's position in its handler, and the handler's locals
\* resp           the last response sent, with the request's inputs
\* returned       the {job_id, model_id} pairs that generate requests returned
VARIABLES db, generationjob, modelspec, deployment, nextOid, req, resp, returned

vars == <<db, generationjob, modelspec, deployment, nextOid, req, resp, returned>>

store == <<generationjob, modelspec, deployment>>

\* ---------------------------------------------------------------- bounds

\* Documents the store may hold in total (over the three collections).
MaxDocs == 4

\* Requests that may be in flight at once.
Req == {"r1", "r2"}

\* The one worker of the sequential specification.
SeqReq == "r1"

\* The store's first identifier: "00000000000000000000000a".
OidSeeds == {10}

\* ------------------------------------------------- strings, identifiers

Min(a, b) == IF a < b THEN a ELSE b

Max(a, b) == IF a > b THEN a ELSE b

HexDigits == <<"0", "1", "2", "3", "4", "5", "6", "7", "8", "9", "a", "b", "c", "d", "e", "f">>

UpperHexDigits == <<"0", "1", "2", "3", "4", "5", "6", "7", "8", "9", "A", "B", "C", "D", "E", "F">>

OtherChars == {"z", "-", "/", "p", "r", "o", "l", "y", "m", "n", "t", "s", "v"}

None == <<>>

Chars == {HexDigits[i] : i \in 1..16} \cup {UpperHexDigits[i] : i \in 1..16} \cup OtherChars

Some(v) == <<v>>

\* bson.ObjectId: 12 bytes, written as 24 hexadecimal characters.
OidHexLen == 24

HexChars == {HexDigits[i] : i \in 1..16} \cup {UpperHexDigits[i] : i \in 1..16}

IsHex(c) == c \in HexChars

\* The value of one hexadecimal character, either case.
HexValue == [c \in HexChars |-> (CHOOSE i \in 1..16 : HexDigits[i] = c \/ UpperHexDigits[i] = c) - 1]

HexVal(c) == HexValue[c]

\* bytes.fromhex over the first n characters, as a number.
RECURSIVE HexNumber(_, _)
HexNumber(s, n) == IF n = 0 THEN 0 ELSE 16 * HexNumber(s, n - 1) + HexVal(s[n])

\* ObjectId.is_valid for a str: 24 characters, all hexadecimal (either case).
ValidOid(s) == Len(s) = OidHexLen /\ \A i \in 1..Len(s) : IsHex(s[i])

\* ObjectId(s); raises InvalidId (modelled as -1) for a malformed string.
ObjectId(s) == IF ValidOid(s) THEN HexNumber(s, Len(s)) ELSE -1

\* The k-th hexadecimal digit of n, from the right, in lower case.
HexDigit(n, k) == HexDigits[((n \div (16 ^ k)) % 16) + 1]

LeadingZeros == [i \in 1..(OidHexLen - 6) |-> "0"]

\* str(ObjectId): 24 lower-case hexadecimal characters (identifiers of the
\* model stay below 16^6, so the leading characters are "0").
OidStr(n) ==
    LeadingZeros \o <<HexDigit(n, 5), HexDigit(n, 4), HexDigit(n, 3),
                      HexDigit(n, 2), HexDigit(n, 1), HexDigit(n, 0)>>

\* str.upper() of a hexadecimal string.
Upper(s) == [i \in 1..Len(s) |-> IF IsHex(s[i]) THEN UpperHexDigits[HexVal(s[i]) + 1] ELSE s[i]]

\* s[-n:]
LastChars(s, n) == SubSeq(s, Max(1, Len(s) - n + 1), Len(s))

\* Python truthiness of an Optional[str]: None and "" are false.
TruthyStr(opt) == opt # None /\ opt[1] # <<>>

\* Python truthiness of an Optional[dict]: None and {} are false.
TruthyDict(opt) == opt # None /\ opt[1] # {}

\* dict.get(key, default) over a dict held as a set of <<key, value>> pairs.
DictGet(d, key, default) ==
    IF \E p \in d : p[1] = key THEN (CHOOSE p \in d : p[1] = key)[2] ELSE default

\* ------------------------------------------------------ document store

\* The store connection is absent (db is None) or present.
DbStates == {"None", "connected"}

\* A record's fields with the identifier the store assigns it.
WithId(record, oid) == ("_id" :> oid) @@ record

\* create_document(collection, record): the collection after the insert.
CreateDocument(coll, record) == Append(coll, WithId(record, nextOid))

\* create_document's return value: the new identifier as a string.
InsertedId == OidStr(nextOid)

\* create_document's outcomes: it fails when the connection is unavailable,
\* and an insert may fail for other reasons when it is available.
CreateOutcomes == IF db = "None" THEN {"error"} ELSE {"ok", "error"}

\* get_documents(collection, limit): up to limit records, in stored order.
GetDocuments(coll, limit) == SubSeq(coll, 1, Min(Max(limit, 0), Len(coll)))

\* collection.find_one({"_id": oid}): the first record with that identifier.
FindOne(coll, oid) ==
    IF \E i \in 1..Len(coll) : coll[i]["_id"] = oid
    THEN Some(coll[CHOOSE i \in 1..Len(coll) :
                     /\ coll[i]["_id"] = oid
                     /\ \A j \in 1..(i - 1) : coll[j]["_id"] # oid])
    ELSE None

\* ------------------------------------------------------------- schemas

\* schemas.GenerationJob(prompt, status, model_id)
GenerationJob(prompt, status, model_id) ==
    [prompt |-> prompt, status |-> status, model_id |-> model_id]

\* schemas.ModelSpec(name, prompt, version, status, parameters, artifacts)
ModelSpec(name, prompt, version, status, parameters, artifacts) ==
    [name |-> name, prompt |-> prompt, version |-> version, status |-> status,
     parameters |-> parameters, artifacts |-> artifacts]

\* schemas.Deployment(model_id, name, url, status)
Deployment(model_id, name, url, status) ==
    [model_id |-> model_id, name |-> name, url |-> url, status |-> status]

\* ------------------------------------------------- requests, responses

\* A handler's locals while its request is in flight.
IdleReq == [pc |-> "idle", prompt |-> "", parameters |-> None, model_id |-> <<>>,
            name |-> None, job_id |-> <<>>]

\* Documents written so far, and writes made so far (inserts and updates).
Allocated == Len(generationjob) + Len(modelspec) + Len(deployment)

WritesOf(jobs, models, deployments) ==
    Len(jobs) + Len(models) + Len(deployments)
      + Cardinality({i \in 1..Len(jobs) : jobs[i]["status"] = "completed"})

StoreWrites == WritesOf(generationjob, modelspec, deployment)

\* Inserts the requests in flight have still to make.
Reserved == Cardinality({r \in Req : req[r].pc \in {"gen_insert_model", "dep_insert"}})

\* The last response sent: the endpoint, the request's inputs, the status code,
\* the error detail, the body's fields, and the step that ended the request.
NoResp == [op |-> "none", status |-> 0, detail |-> "", stage |-> "",
           job_id |-> <<>>, model_id |-> <<>>, deployment_id |-> <<>>, name |-> None,
           limit |-> 0, docs |-> <<>>, output |-> <<>>, writes |-> 0]

\* HTTPException(status_code, detail)
HTTPException(op, stage, status, detail) ==
    [NoResp EXCEPT !.op = op, !.stage = stage, !.status = status, !.detail = detail,
                   !.writes = StoreWrites]

\* An exception no handler catches: the framework answers 500.
Unhandled(op, stage) == HTTPException(op, stage, 500, "Internal Server Error")

NotConfigured(op, stage) == HTTPException(op, stage, 500, "Database not configured")

NotFound(op, stage) == HTTPException(op, stage, 404, "Model not found")

\* A new request is taken by the first free worker.
Free(r) == req[r].pc = "idle" /\ (r = "r2" => req["r1"].pc # "idle")

\* Request inputs. Under Spec two workers serve the requests, with every class
\* of generation parameters and query text; under SeqSpec one worker serves
\* them, with every class of identifier, deployment name and limit.
Prompts == {"p"}

ParameterInputs == {None, Some({<<"name", "M">>})}

PlainParameterInputs == {None}

NameInputs == {None, Some(<<>>), Some(<<"p", "r", "o", "d">>)}

PlainNameInputs == {None, Some(<<"p", "r", "o", "d">>)}

QInputs == {None, Some("hello")}

PlainQInputs == {None}

DefaultLimit == 50

LimitInputs == {-1, 0, 1, DefaultLimit}

PlainLimitInputs == {DefaultLimit}

\* Identifiers a client may send: those of the stored models, in lower and in
\* upper case, a well-formed identifier of no model, and malformed strings.
ModelOids == {modelspec[i]["_id"] : i \in 1..Len(modelspec)} \cup {nextOid}

MalformedIds == {<<"a", "b", "c">>, [i \in 1..OidHexLen |-> IF i = OidHexLen THEN "z" ELSE "0"]}

ModelIdInputs ==
    {OidStr(n) : n \in ModelOids} \cup {Upper(OidStr(n)) : n \in ModelOids} \cup MalformedIds

PlainModelIdInputs == {OidStr(n) : n \in ModelOids}

\* ------------------------------------------------------ POST /api/generate

Artifacts == <<"weights://mock/model.bin", "tokenizer://mock/vocab.json">>

\* Mutant: the job is created with the schema's other initial status.
NewJobQueued(prompt) == GenerationJob(prompt, "queued", None)

\* job = GenerationJob(prompt=req.prompt, status="running", model_id=None)
NewJob(prompt) == GenerationJob(prompt, "running", None)

ModelName(parameters) ==
    IF TruthyDict(parameters) THEN DictGet(parameters[1], "name", "Prompt Model")
    ELSE "Prompt Model"

NewModel(prompt, parameters) ==
    ModelSpec(ModelName(parameters), prompt, "v1", "ready",
              IF TruthyDict(parameters) THEN parameters[1] ELSE {}, Artifacts)

\* Mutant: the update looks for a running job instead of the request's own.
JobFilterAnyRunning(doc, job_id) == doc["status"] = "running"

\* The update's filter, {"_id": ObjectId(job_id)}.
JobFilter(doc, job_id) == doc["_id"] = ObjectId(job_id)

\* Mutant: the update sets the status and leaves model_id out.
JobCompletedNoModel(doc, model_id) == [doc EXCEPT !["status"] = "completed"]

\* The update's {"$set": {"status": "completed", "model_id": model_id}}.
JobCompleted(doc, model_id) ==
    [doc EXCEPT !["status"] = "completed", !["model_id"] = Some(model_id)]

\* update_one(filter, {"$set": ...}) over the jobs: the first record the filter
\* matches is rewritten, the others are left alone.
UpdateJob(jobs, job_id, model_id) ==
    [i \in 1..Len(jobs) |->
        IF JobFilter(jobs[i], job_id) /\ \A j \in 1..(i - 1) : ~JobFilter(jobs[j], job_id)
        THEN JobCompleted(jobs[i], model_id) ELSE jobs[i]]

\* job = GenerationJob(...); job_id = create_document("generationjob", job)
GenInsertJob(r, prompt, parameters) ==
    /\ Free(r)
    /\ Allocated + Reserved + 2 <= MaxDocs
    /\ \E outcome \in CreateOutcomes :
         IF outcome = "ok"
         THEN /\ generationjob' = CreateDocument(generationjob, NewJob(prompt))
              /\ nextOid' = nextOid + 1
              /\ req' = [req EXCEPT ![r] = [IdleReq EXCEPT !.pc = "gen_insert_model",
                                                          !.prompt = prompt,
                                                          !.parameters = parameters,
                                                          !.job_id = InsertedId]]
              /\ UNCHANGED resp
         ELSE /\ resp' = Unhandled("generate", "insert_job")
              /\ UNCHANGED <<generationjob, nextOid, req>>
    /\ UNCHANGED <<db, modelspec, deployment, returned>>

\* model = ModelSpec(...); model_id = create_document("modelspec", model)
GenInsertModel(r) ==
    /\ req[r].pc = "gen_insert_model"
    /\ \E outcome \in CreateOutcomes :
         IF outcome = "ok"
         THEN /\ modelspec' = CreateDocument(modelspec, NewModel(req[r].prompt, req[r].parameters))
              /\ nextOid' = nextOid + 1
              /\ req' = [req EXCEPT ![r].pc = "gen_update", ![r].model_id = InsertedId]
              /\ UNCHANGED resp
         ELSE /\ resp' = [Unhandled("generate", "insert_model") EXCEPT !.job_id = req[r].job_id]
              /\ req' = [req EXCEPT ![r] = IdleReq]
              /\ UNCHANGED <<modelspec, nextOid>>
    /\ UNCHANGED <<db, generationjob, deployment, returned>>

\* Mutant: an update that fails has already been written.
GenUpdateWritesThenFails(r) ==
    /\ req[r].pc = "gen_update"
    /\ req' = [req EXCEPT ![r] = IdleReq]
    /\ IF db = "None"
       THEN /\ resp' = [NotConfigured("generate", "update") EXCEPT !.job_id = req[r].job_id,
                                                                  !.model_id = req[r].model_id]
            /\ UNCHANGED <<generationjob, returned>>
       ELSE \E outcome \in {"ok", "error"} :
              IF outcome = "ok"
              THEN /\ generationjob' = UpdateJob(generationjob, req[r].job_id, req[r].model_id)
                   /\ resp' = [NoResp EXCEPT !.op = "generate", !.stage = "return",
                                             !.status = 201,
                                             !.job_id = req[r].job_id,
                                             !.model_id = req[r].model_id,
                                             !.writes = WritesOf(generationjob', modelspec, deployment)]
                   /\ returned' = returned \cup {[job_id |-> req[r].job_id,
                                                  model_id |-> req[r].model_id]}
              ELSE /\ generationjob' = UpdateJob(generationjob, req[r].job_id, req[r].model_id)
                   /\ resp' = [Unhandled("generate", "update") EXCEPT
                                 !.job_id = req[r].job_id, !.model_id = req[r].model_id]
                   /\ UNCHANGED returned
    /\ UNCHANGED <<db, modelspec, deployment, nextOid>>

\* if db is None: raise ...; update_one(...); return {"job_id", "model_id"}
GenUpdate(r) ==
    /\ req[r].pc = "gen_update"
    /\ req' = [req EXCEPT ![r] = IdleReq]
    /\ IF db = "None"
       THEN /\ resp' = [NotConfigured("generate", "update") EXCEPT !.job_id = req[r].job_id,
                                                                  !.model_id = req[r].model_id]
            /\ UNCHANGED <<generationjob, returned>>
       ELSE \E outcome \in {"ok", "error"} :
              IF outcome = "ok"
              THEN /\ generationjob' = UpdateJob(generationjob, req[r].job_id, req[r].model_id)
                   /\ resp' = [NoResp EXCEPT !.op = "generate", !.stage = "return",
                                             !.status = 201,
                                             !.job_id = req[r].job_id,
                                             !.model_id = req[r].model_id,
                                             !.writes = WritesOf(generationjob', modelspec, deployment)]
                   /\ returned' = returned \cup {[job_id |-> req[r].job_id,
                                                  model_id |-> req[r].model_id]}
              ELSE /\ resp' = [Unhandled("generate", "update") EXCEPT !.job_id = req[r].job_id,
                                                                     !.model_id = req[r].model_id]
                   /\ UNCHANGED <<generationjob, returned>>
    /\ UNCHANGED <<db, modelspec, deployment, nextOid>>

\* ---------------------------------------------------------- _to_public

\* Mutant: "id" is added and "_id" is not removed.
ToPublicKeepsId(doc) ==
    IF DOMAIN doc = {} THEN doc
    ELSE IF "_id" \in DOMAIN doc
         THEN [k \in DOMAIN doc \cup {"id"} |-> IF k = "id" THEN OidStr(doc["_id"]) ELSE doc[k]]
         ELSE doc

\* _to_public(doc): the record with "_id" replaced by "id", its string form.
ToPublic(doc) ==
    IF DOMAIN doc = {} THEN doc
    ELSE IF "_id" \in DOMAIN doc
         THEN [k \in (DOMAIN doc \ {"_id"}) \cup {"id"} |->
                 IF k = "id" THEN OidStr(doc["_id"]) ELSE doc[k]]
         ELSE doc

\* [_to_public(d) for d in docs]
ToPublicAll(docs) == [i \in 1..Len(docs) |-> ToPublic(docs[i])]

\* -------------------------------------- GET /api/models, /api/deployments

\* The body of a listing: get_documents(collection, limit=limit), made public.
Listing(coll, limit) == ToPublicAll(GetDocuments(coll, limit))

ListResponse(op, coll, limit) ==
    IF db = "None"
    THEN [Unhandled(op, "get_documents") EXCEPT !.limit = limit]
    ELSE [NoResp EXCEPT !.op = op, !.stage = "return", !.status = 200, !.limit = limit,
                        !.docs = Listing(coll, limit), !.writes = StoreWrites]

\* Mutant: _to_public's in-place edit reaches the stored records, which gain
\* the field "id".
ListModelsWriteBack(limit) ==
    /\ resp' = ListResponse("list_models", modelspec, limit)
    /\ modelspec' = [i \in 1..Len(modelspec) |->
                       IF db = "connected" /\ i <= Len(GetDocuments(modelspec, limit))
                       THEN ("id" :> OidStr(modelspec[i]["_id"])) @@ modelspec[i]
                       ELSE modelspec[i]]
    /\ UNCHANGED <<db, generationjob, deployment, nextOid, req, returned>>

\* list_models(limit)
ListModels(limit) ==
    /\ resp' = ListResponse("list_models", modelspec, limit)
    /\ UNCHANGED <<db, generationjob, modelspec, deployment, nextOid, req, returned>>

\* list_deployments(limit)
ListDeployments(limit) ==
    /\ resp' = ListResponse("list_deployments", deployment, limit)
    /\ UNCHANGED <<db, generationjob, modelspec, deployment, nextOid, req, returned>>

\* -------------------------------------------------------- POST /api/deploy

\* Mutant: only an absent name is replaced, an empty one is kept.
DeploymentNameNoneOnly(model_id, name) ==
    IF name # None THEN name[1]
    ELSE <<"d", "e", "p", "l", "o", "y", "m", "e", "n", "t", "-">> \o LastChars(model_id, 6)

\* req.name or f"deployment-{req.model_id[-6:]}"
DeploymentName(model_id, name) ==
    IF TruthyStr(name) THEN name[1]
    ELSE <<"d", "e", "p", "l", "o", "y", "m", "e", "n", "t", "-">> \o LastChars(model_id, 6)

\* os.getenv("PUBLIC_BACKEND_URL", "")
PublicBackendUrl == <<>>

\* f"{PUBLIC_BACKEND_URL}/serve/{req.model_id}"
ServeUrl(model_id) == PublicBackendUrl \o <<"/", "s", "e", "r", "v", "e", "/">> \o model_id

NewDeployment(model_id, name) ==
    Deployment(model_id, DeploymentName(model_id, name), Some(ServeUrl(model_id)), "active")

\* The lookup's outcome: "invalid" (ObjectId raises), "absent" or "found".
Lookup(model_id) ==
    IF ~ValidOid(model_id) THEN "invalid"
    ELSE IF FindOne(modelspec, ObjectId(model_id)) = None THEN "absent"
    ELSE "found"

\* Mutant: the handler reads the model it did not find, which raises.
DeployLookupDerefNone(model_id) == IF Lookup(model_id) = "found" THEN "found" ELSE "invalid"

\* Mutant: the handler does not check that the model was found.
DeployLookupNoCheck(model_id) == IF Lookup(model_id) = "invalid" THEN "invalid" ELSE "found"

\* deploy_model's lookup: find_one({"_id": ObjectId(req.model_id)}); if not model
DeployLookup(model_id) == Lookup(model_id)

\* if db is None: raise 500; model = find_one(...); if not model: raise 404
DepFind(r, model_id, name) ==
    /\ Free(r)
    /\ IF db = "None"
       THEN /\ resp' = [NotConfigured("deploy", "find") EXCEPT !.model_id = model_id]
            /\ UNCHANGED req
       ELSE IF DeployLookup(model_id) = "invalid"
       THEN /\ resp' = [Unhandled("deploy", "find") EXCEPT !.model_id = model_id]
            /\ UNCHANGED req
       ELSE IF DeployLookup(model_id) = "absent"
       THEN /\ resp' = [NotFound("deploy", "find") EXCEPT !.model_id = model_id]
            /\ UNCHANGED req
       ELSE /\ Allocated + Reserved + 1 <= MaxDocs
            /\ req' = [req EXCEPT ![r] = [IdleReq EXCEPT !.pc = "dep_insert",
                                                        !.model_id = model_id,
                                                        !.name = name]]
            /\ UNCHANGED resp
    /\ UNCHANGED <<db, generationjob, modelspec, deployment, nextOid, returned>>

\* deployment = Deployment(...); dep_id = create_document(...); return {"deployment_id"}
DepInsert(r) ==
    /\ req[r].pc = "dep_insert"
    /\ req' = [req EXCEPT ![r] = IdleReq]
    /\ \E outcome \in CreateOutcomes :
         IF outcome = "ok"
         THEN /\ deployment' = CreateDocument(deployment, NewDeployment(req[r].model_id, req[r].name))
              /\ nextOid' = nextOid + 1
              /\ resp' = [NoResp EXCEPT !.op = "deploy", !.stage = "return", !.status = 201,
                                        !.model_id = req[r].model_id, !.name = req[r].name,
                                        !.deployment_id = InsertedId,
                                        !.writes = WritesOf(generationjob, modelspec, deployment')]
         ELSE /\ resp' = [Unhandled("deploy", "insert") EXCEPT !.model_id = req[r].model_id,
                                                              !.name = req[r].name]
              /\ UNCHANGED <<deployment, nextOid>>
    /\ UNCHANGED <<db, generationjob, modelspec, returned>>

\* ------------------------------------------------- GET /serve/{model_id}

\* model.get("name", "Model")
ServedName(model) == IF "name" \in DOMAIN model THEN model["name"] ELSE "Model"

\* f"Model '{name}' responded to: {q or 'ping'}"
ServeOutput(model, q) ==
    <<"Model '", ServedName(model), "' responded to: ", IF q # None /\ q[1] # "" THEN q[1] ELSE "ping">>

ServeModel(model_id, q) ==
    /\ resp' = IF db = "None"
               THEN [NotConfigured("serve", "find") EXCEPT !.model_id = model_id]
               ELSE IF Lookup(model_id) = "invalid"
               THEN [Unhandled("serve", "find") EXCEPT !.model_id = model_id]
               ELSE IF Lookup(model_id) = "absent"
               THEN [NotFound("serve", "find") EXCEPT !.model_id = model_id]
               ELSE [NoResp EXCEPT !.op = "serve", !.stage = "return", !.status = 200,
                                   !.model_id = model_id,
                                   !.output = ServeOutput(FindOne(modelspec, ObjectId(model_id))[1], q),
                                   !.writes = StoreWrites]
    /\ UNCHANGED <<db, generationjob, modelspec, deployment, nextOid, req, returned>>

\* ------------------------------------------------------- specification

Init ==
    /\ db \in DbStates
    /\ generationjob = <<>>
    /\ modelspec = <<>>
    /\ deployment = <<>>
    /\ nextOid \in OidSeeds
    /\ req = [r \in Req |-> IdleReq]
    /\ resp = NoResp
    /\ returned = {}

Next ==
    \/ \E r \in Req, prompt \in Prompts, parameters \in ParameterInputs :
         GenInsertJob(r, prompt, parameters)
    \/ \E r \in Req : GenInsertModel(r)
    \/ \E r \in Req : GenUpdate(r)
    \/ \E limit \in PlainLimitInputs : ListModels(limit)
    \/ \E limit \in PlainLimitInputs : ListDeployments(limit)
    \/ \E r \in Req, model_id \in PlainModelIdInputs, name \in PlainNameInputs :
         DepFind(r, model_id, name)
    \/ \E r \in Req : DepInsert(r)
    \/ \E model_id \in PlainModelIdInputs, q \in QInputs : ServeModel(model_id, q)

NextSeq ==
    \/ \E prompt \in Prompts, parameters \in PlainParameterInputs :
         GenInsertJob(SeqReq, prompt, parameters)
    \/ GenInsertModel(SeqReq)
    \/ GenUpdate(SeqReq)
    \/ \E limit \in LimitInputs : ListModels(limit)
    \/ \E limit \in LimitInputs : ListDeployments(limit)
    \/ \E model_id \in ModelIdInputs, name \in NameInputs : DepFind(SeqReq, model_id, name)
    \/ DepInsert(SeqReq)
    \/ \E model_id \in ModelIdInputs, q \in PlainQInputs : ServeModel(model_id, q)

\* Requests served concurrently by two workers.
Spec == Init /\ [][Next]_vars

\* Requests served one at a time, over every class of input.
SeqSpec == Init /\ [][NextSeq]_vars

\* ------------------------------------------------------------- claims

\* The string identifies a record of the collection: it parses as an
\* ObjectId and a record carries that identifier.
Identifies(coll, id) ==
    ValidOid(id) /\ \E i \in 1..Len(coll) : coll[i]["_id"] = ObjectId(id)

\* The records of the collection that the string identifies.
Records(coll, id) == {i \in 1..Len(coll) : ValidOid(id) /\ coll[i]["_id"] = ObjectId(id)}

\* The collection is unchanged but for records added at its end.
Extended(old, new) == Len(new) >= Len(old) /\ SubSeq(new, 1, Len(old)) = old

\* The step sends a response of the endpoint.
Answered(op) == resp' # resp /\ resp'.op = op

\* C1: a generate request answered 201 leaves the model it names ready with
\* exactly two artifacts, and the job it names completed and pointing at that
\* model.
C1_GenerateResult ==
    (resp.op = "generate" /\ resp.status = 201) =>
        /\ Records(modelspec, resp.model_id) # {}
        /\ \A i \in Records(modelspec, resp.model_id) :
             modelspec[i]["status"] = "ready" /\ Len(modelspec[i]["artifacts"]) = 2
        /\ Records(generationjob, resp.job_id) # {}
        /\ \A i \in Records(generationjob, resp.job_id) :
             /\ generationjob[i]["status"] = "completed"
             /\ generationjob[i]["model_id"] = Some(resp.model_id)

C1_Witness ==
    /\ resp.op = "generate" /\ resp.status = 201
    /\ \E i \in Records(modelspec, resp.model_id) : modelspec[i]["name"] = "M"

\* C2 as stated: with the store available, a deploy request whose model_id
\* identifies no model is answered 404 and changes no collection.
C2_Original ==
    [][(Answered("deploy") /\ db = "connected" /\ ~Identifies(modelspec, resp'.model_id))
         => (resp'.status = 404 /\ store' = store)]_vars

\* C2 as amended: a deploy request whose model_id identifies no model changes
\* no collection; it is answered 404 when the store is available and the
\* model_id is a well-formed identifier, 500 (unhandled InvalidId) when the
\* model_id is malformed, and 500 "Database not configured" without a store.
C2_DeployUnknownModel ==
    [][(Answered("deploy") /\ ~Identifies(modelspec, resp'.model_id))
         => /\ store' = store
            /\ nextOid' = nextOid
            /\ resp'.status = (IF db = "connected" /\ ValidOid(resp'.model_id) THEN 404 ELSE 500)
            /\ resp'.detail = (IF db = "None" THEN "Database not configured"
                               ELSE IF ValidOid(resp'.model_id) THEN "Model not found"
                               ELSE "Internal Server Error")]_vars

C2_Witness ==
    /\ resp.op = "deploy" /\ resp.status = 404
    /\ ValidOid(resp.model_id)
    /\ Len(modelspec) >= 1 /\ Len(deployment) >= 1

\* A listed record is public: a string field id, no field _id.
IsPublic(doc) ==
    /\ "id" \in DOMAIN doc
    /\ "_id" \notin DOMAIN doc
    /\ doc["id"] \in Seq(Chars)

C4_NotConfigured ==
    (db = "None" /\ resp.op # "none") =>
        /\ resp.status = 500
        /\ resp.detail = "Database not configured"
        /\ resp.op = "generate" => resp.stage = "update"
        /\ Allocated = 0

DeploymentPrefix == <<"d", "e", "p", "l", "o", "y", "m", "e", "n", "t", "-">>

\* The name is "deployment-" followed by the last 6 characters of the
\* 24-character identifier.
IsGeneratedName(name, model_id) ==
    /\ Len(name) = Len(DeploymentPrefix) + 6
    /\ \A k \in 1..Len(DeploymentPrefix) : name[k] = DeploymentPrefix[k]
    /\ \A k \in 1..6 : name[Len(DeploymentPrefix) + k] = model_id[Len(model_id) - 6 + k]

\* C6: a deploy request answered 201 has added exactly one deployment record,
\* the one the response names: its model_id is the request's, its status is
\* "active", and its name is the request's name when that is non-empty and
\* "deployment-" plus the last 6 characters of the model_id otherwise.
C6_DeploymentRecord ==
    [][(Answered("deploy") /\ resp'.status = 201)
         => /\ Len(deployment') = Len(deployment) + 1
            /\ Extended(deployment, deployment')
            /\ Records(deployment', resp'.deployment_id) = {Len(deployment')}
            /\ LET created == deployment'[Len(deployment')]
               IN /\ created["model_id"] = resp'.model_id
                  /\ created["status"] = "active"
                  /\ IF resp'.name = None \/ resp'.name = Some(<<>>)
                     THEN IsGeneratedName(created["name"], resp'.model_id)
                     ELSE created["name"] = resp'.name[1]]_vars

C6_Witness ==
    /\ resp.op = "deploy" /\ resp.status = 201
    /\ resp.name = Some(<<>>)
    /\ \E i \in Records(deployment, resp.deployment_id) :
         IsGeneratedName(deployment[i]["name"], resp.model_id)

\* A job is running with no model, or completed with an existing model.
JobWellFormed(job) ==
    \/ job["status"] = "running" /\ job["model_id"] = None
    \/ /\ job["status"] = "completed"
       /\ job["model_id"] # None
       /\ Identifies(modelspec, job["model_id"][1])

\* The generate requests in flight hold the jobs they created, one each.
JobsOwned ==
    \A r \in Req : req[r].pc \in {"gen_insert_model", "gen_update"} =>
        /\ Cardinality(Records(generationjob, req[r].job_id)) = 1
        /\ \A q \in Req \ {r} : req[q].job_id # req[r].job_id

\* A job record changes only from running to completed, in the update step
\* of the generate request that holds it.
JobStep ==
    /\ Len(generationjob') >= Len(generationjob)
    /\ \A i \in 1..Len(generationjob) :
         generationjob'[i] # generationjob[i] =>
            /\ generationjob[i]["status"] = "running"
            /\ generationjob'[i]["status"] = "completed"
            /\ generationjob'[i]["_id"] = generationjob[i]["_id"]
            /\ \E r \in Req : /\ req[r].pc = "gen_update"
                              /\ req'[r].pc = "idle"
                              /\ ObjectId(req[r].job_id) = generationjob[i]["_id"]

\* C7: every job is (running, no model) or (completed, an existing model);
\* a job changes only from running to completed, only in the update step of
\* the request that created it, and none is ever "failed" or "queued".
C7_JobLifecycle ==
    /\ [](JobsOwned /\ \A i \in 1..Len(generationjob) : JobWellFormed(generationjob[i]))
    /\ [][JobStep]_vars

C7_Witness ==
    /\ \E i \in 1..Len(generationjob) : generationjob[i]["status"] = "completed"
    /\ \E i \in 1..Len(generationjob) : generationjob[i]["status"] = "running"
    /\ \E r \in Req : req[r].pc = "gen_update"

\* C8: the pairs returned by generate requests share no job and no model,
\* and each returned job is completed with the model returned beside it.
C8_IndependentPairs ==
    /\ \A a, b \in returned : (a.job_id = b.job_id \/ a.model_id = b.model_id) => a = b
    /\ \A a \in returned :
         /\ Identifies(modelspec, a.model_id)
         /\ Records(generationjob, a.job_id) # {}
         /\ \A i \in Records(generationjob, a.job_id) :
              generationjob[i]["model_id"] = Some(a.model_id)
    /\ Cardinality(returned)
         = Cardinality({i \in 1..Len(generationjob) : generationjob[i]["status"] = "completed"})

\* Two requests that overlapped: the second's job was inserted before the
\* first's model.
C8_Witness ==
    \E a, b \in returned :
        /\ ObjectId(a.job_id) < ObjectId(b.job_id)
        /\ ObjectId(b.job_id) < ObjectId(a.model_id)

\* No job points at the model.
Unreferenced(jobs, model_id) ==
    \A i \in 1..Len(jobs) : jobs[i]["model_id"] # Some(model_id)

\* The job is still running, with no model.
StillRunning(jobs, job_id) ==
    /\ Records(jobs, job_id) # {}
    /\ \A i \in Records(jobs, job_id) :
         jobs[i]["status"] = "running" /\ jobs[i]["model_id"] = None

\* The step ends a generate request with an error at the stage.
GenerateFailed(stage) ==
    Answered("generate") /\ resp'.status = 500 /\ resp'.stage = stage

\* C9: a generate request that fails at, or has not yet made, its update
\* leaves its job running with no model and its model stored but referenced
\* by no job; one that fails at the model insert leaves its job running with
\* no model and adds no model. Nothing is undone.
C9_NoCompensation ==
    /\ [](\A r \in Req : req[r].pc = "gen_update" =>
             /\ StillRunning(generationjob, req[r].job_id)
             /\ Identifies(modelspec, req[r].model_id)
             /\ Unreferenced(generationjob, req[r].model_id))
    /\ [][/\ GenerateFailed("update") =>
               /\ store' = store
               /\ StillRunning(generationjob', resp'.job_id)
               /\ Identifies(modelspec', resp'.model_id)
               /\ Unreferenced(generationjob', resp'.model_id)
          /\ GenerateFailed("insert_model") =>
               /\ store' = store
               /\ StillRunning(generationjob', resp'.job_id)]_vars

C9_Witness ==
    /\ resp.op = "generate" /\ resp.status = 500 /\ resp.stage = "update"
    /\ StillRunning(generationjob, resp.job_id)
    /\ Identifies(modelspec, resp.model_id)
    /\ Unreferenced(generationjob, resp.model_id)

\* C10: every deployment's model_id identifies a stored model, no model or
\* deployment is removed or rewritten, and no job is removed.
C10_ReferentialIntegrity ==
    /\ [](\A i \in 1..Len(deployment) : Identifies(modelspec, deployment[i]["model_id"]))
    /\ [][/\ Extended(modelspec, modelspec')
          /\ Extended(deployment, deployment')
          /\ Len(generationjob') >= Len(generationjob)
          /\ \A i \in 1..Len(generationjob) :
               generationjob'[i]["_id"] = generationjob[i]["_id"]]_vars

C10_Witness ==
    /\ Len(deployment) >= 1
    /\ \E r \in Req : req[r].pc = "gen_update"
    /\ \E r \in Req : req[r].pc = "dep_insert"

====
